---- MODULE Spec2Model ----
(***************************************************************************)
(* Model of pyonedrive's upload path: OneDriveAPIClient.upload and its     *)
(* helpers (api.py), the chunk transport (upload_helper.py) and the        *)
(* saved-session store (save.py).                                          *)
(*                                                                         *)
(* One upload call is a sequential workflow that blocks on one HTTP        *)
(* request at a time.  pc names the request in flight; every action runs   *)
(* the code from the arrival of one response (drawn with \E from the       *)
(* responses the server can give) to the next request, return or raise.    *)
(* A "request" is one call of the authenticated request function           *)
(* (auth.py request), which the upload code treats as opaque.              *)
(***************************************************************************)
EXTENDS Integers, Sequences, FiniteSets, TLC

\* ---------------------------------------------------------------- bounds
\* largest number of chunks of a resumable upload that is explored
MaxChunks == 4
\* largest number of upload sessions the server issues during one call
MaxSessions == 2
\* POSIX times (clock readings and expiry timestamps) range over 1..MaxTime
MaxTime == 2
MaxItems == 3
MaxDepth == 2

\* ------------------------------------------------------ program constants
\* upload_helper.py:32 and 48, retries=5 of both put helpers
retries == 5
\* api.py:128 upper clamp of simple_upload_threshold (100 MiB)
MaxSimpleThreshold == 104857600
\* api.py:133 chunk alignment unit (320 KiB)
ChunkUnit == 327680
\* api.py:133 upper clamp of chunk_size, 1048576 * 60 (60 MiB)
MaxChunkSize == 62914560

Min(a, b) == IF a < b THEN a ELSE b
Max(a, b) == IF a > b THEN a ELSE b

Times == 1..MaxTime

\* ------------------------------------------------------------ input sets
\* local file sizes in bytes
FileSizes == {0, 5120, 983041, 1310721, 10485760, 26214400}
\* simple_upload_threshold keyword argument as passed by the caller
ThresholdArgs == {0 - 1, 10485760, 200000000}
\* chunk_size keyword argument as passed by the caller
ChunkSizeArgs == {0, 10485760, 99999999}

\* ------------------------------------------------------------------ URLs
\* An upload URL is a session id plus the names of its query variables.
\* id 0 is the session of an earlier invocation found on disk.
NoUrl == [id |-> 0 - 1, query |-> {}]
Url(i, q) == [id |-> i, query |-> q]
ServerQueries == {{"access_token"}, {}}

\* mutant of pop_query_from_url: the URL is returned as it came
pop_query_identity(url, query_variable) == url

\* util.py:32-39: parse_qs, pop the variable, urlencode
pop_query_from_url(url, query_variable) ==
    [url EXCEPT !.query = @ \ {query_variable}]

\* auth.py:171-173 with log.py:25-30: request logs every response with
\* logging.info("... HTTP %d: %s", status_code, response.text); of the text,
\* the model keeps the upload URL the body holds, as it came
log_response(text) == text

\* ------------------------------------------------------------- responses
\* A chunk PUT response: status code, error.innererror.code of the body
\* ("absent": JSON body without that key, "notjson": body is not JSON) and
\* file.hashes.sha1Hash of the body relative to the local digest.
NoResponse == [status_code |-> 0, code |-> "absent", sha1 |-> "absent"]
Resp(s, c, h) == [status_code |-> s, code |-> c, sha1 |-> h]

ChunkResponses ==
    {Resp(s, "absent", h) : s \in {200, 201}, h \in {"same", "diff", "absent"}}
    \cup {Resp(s, "absent", "absent") :
            s \in {202, 400, 401, 404, 500, 501, 503}}
    \cup {Resp(416, c, "absent") :
            c \in {"fragmentRowCountCheckFailed", "other", "absent", "notjson"}}

\* The classes of the response table of spec 4.2, by status and body: the
\* vocabulary in which the history variable prev records a response.
\* The row "status >= 500, or 416 not matching the anomaly
\* signature" is recorded as TransientRetry and TransientRetry416.
TableClass(r) ==
    IF r.status_code = 0 THEN "none"
    ELSE IF r.status_code \in {200, 201, 202} THEN "Progress"
    ELSE IF r.status_code = 404 THEN "RestartSession"
    ELSE IF r.status_code = 401 THEN "AnomalousRetry"
    ELSE IF r.status_code = 416 /\ r.code = "fragmentRowCountCheckFailed"
        THEN "AnomalousRetry"
    ELSE IF r.status_code >= 500 THEN "TransientRetry"
    ELSE IF r.status_code = 416 THEN "TransientRetry416"
    ELSE "Fatal"

\* expirationDateTime of a createSession response: an ISO-8601 instant,
\* whole seconds plus a fraction of a second (in tenths); a session the
\* server issues now expires at the end of the modelled time range
ExpirationDateTimes == [sec : {MaxTime}, frac : {0, 5}]

\* arrow.get(expiration_datetime).timestamp: POSIX seconds, fraction dropped
ArrowTimestamp(dt) == dt.sec

\* attempts of one put helper call that end in a network-level exception
\* before an attempt is answered: none, or all but the last attempt
NetworkFailures == {0, retries}

\* nextExpectedRanges of a status response: strings "start-end" ("start-")
\* modelled as pairs <<start, end>>; the start offsets the server names
RangeStarts(c, n) == {0, c, n + 1}

VARIABLES
    pc,                      \* request in flight / idle / done / failed
    err,                     \* exception type raised by upload ("" if none)
    path,                    \* history: API chosen: none, simple, resumable
    total,                   \* size of the local file in bytes
    threshold_arg,           \* simple_upload_threshold as passed
    simple_upload_threshold, \* after the clamp of api.py:128
    chunk_size,              \* effective chunk size (api.py:133)
    compare_hash,            \* compare_hash keyword argument
    session_obj,             \* TRUE iff `session` is a SavedUploadSession
    session,                 \* its upload_url/expires: {} (None) or {record}
    disk,                    \* the session file: {} (absent) or {record}
    upload_url,              \* upload URL in use
    position,                \* byte offset of the next chunk
    weird_error,             \* anomaly flag of the chunk loop
    response,                \* last chunk PUT response (NoResponse: None);
                             \* put_response on the simple path
    prev,                    \* history: class (by the table of spec 4.2) of
                             \* the chunk response before `response`
    prev2_anomalous,         \* history: the chunk response before that one
                             \* was of class AnomalousRetry
    sent,                    \* history: ranges PUT since position was last
                             \* set by start, restart or status query
    happy,                   \* history: every PUT attempt so far was answered,
                             \* and answered with an accepted status
    issued,                  \* number of sessions the server has issued
    slept,                   \* seconds slept since the last response
    logged,                  \* history: the upload URL in the text of the log
                             \* entry written in the last step (NoUrl if none)
    uploadUrl,               \* history: uploadUrl of the createSession response
                             \* handled in the last step (NoUrl if none)
    net_error,               \* history: the request whose network-level
                             \* exception reached the caller of upload, and
                             \* the attempts made of it (NoNetError: none)
    init_status,             \* history: status code of the last createSession
                             \* response (0 before the first)
    expected_ranges,         \* history: nextExpectedRanges of the last status
                             \* response (<<>> before the first)
    remote_exists,           \* history: answer of the existence check that
                             \* follows an empty list (unknown/yes/no)
    call,                    \* history: what local_path and the remote path
                             \* name, whether XDG_DATA_HOME is set, and the
                             \* check_remote and conflict_behavior arguments
                             \* of the call of upload, kept until its first
                             \* response
    clock,                   \* POSIX time read by the last load of the
                             \* session store (0 before the first)
    found,                   \* history: file content the last load found
    op,                      \* history: last session-store method called
    \* one call of a put helper (upload_helper.py), taken by itself
    put_pc,                  \* idle / sending / returned / raised
    stream,                  \* stream_put_file_segment or put_file_segment
    retry,                   \* loop variable of the helper
    attempts,                \* history: PUT requests sent by the call
    put_status,              \* status code of the response returned (0: none)
    last_exc,                \* history: last network-level exception caught
    \* one run of a batch command (cli.py), taken by itself
    command,                 \* the command run ("none" before it starts)
    items,                   \* its items and whether each can succeed
    results,                 \* per item handled: the code the command saw
    returncode,              \* the return code the command accumulates
    batch_pc,                \* idle / running / returned / raised
    \* two upload workers and their session files, taken by themselves
    keys,                    \* per worker: its (remote_path, sha1sum) pair
    files,                   \* per session file: {} (absent) or {record}
    touched,                 \* history: files each worker has accessed
    worker_pc,               \* per worker: new / open / finished
    actor,                   \* history: the worker that took the last step
    \* one call of rename or move on a remote tree, taken by itself
    tree,                    \* the remote items: path -> file / directory
    before,                  \* history: the remote tree before the call
    src,                     \* src argument of the call
    dst,                     \* dst argument of the call
    called,                  \* none / rename / move
    raised,                  \* exception type raised by the call ("": none)
    \* the chunk size computation of upload, taken by itself
    kw_chunk_size,           \* chunk_size keyword argument: {} before the
                             \* call, {c} when c was passed
    eff_chunk_size           \* chunk_size after api.py:133 (0 before)

vars == <<pc, err, path, total, threshold_arg, simple_upload_threshold,
          chunk_size, compare_hash, session_obj, session, disk, upload_url,
          position, weird_error, response, prev, prev2_anomalous, sent,
          happy, issued, slept, uploadUrl, logged, net_error, init_status,
          expected_ranges,
          remote_exists, call, clock, found, op, put_pc, stream, retry,
          attempts, put_status, last_exc, command, items, results,
          returncode, batch_pc, keys, files, touched, worker_pc, actor,
          tree, before, src, dst, called, raised, kw_chunk_size,
          eff_chunk_size>>

replies == <<init_status, expected_ranges, remote_exists>>

NoNetError == [request |-> "none", attempts |-> 0]

store_hist == <<clock, found, op>>

put_vars == <<put_pc, stream, retry, attempts, put_status, last_exc>>

batch_vars == <<command, items, results, returncode, batch_pc>>

worker_vars == <<keys, files, touched, worker_pc, actor>>

rename_vars == <<tree, before, src, dst, called, raised>>

\* the variables of the components that are specified by themselves
size_vars == <<kw_chunk_size, eff_chunk_size>>

component_vars ==
    <<put_vars, batch_vars, worker_vars, rename_vars, size_vars>>

args == <<path, total, threshold_arg, simple_upload_threshold, chunk_size,
          compare_hash, session_obj>>

\* the value of call outside the first step of a call of upload
NoCall == [local |-> "none", check_remote |-> FALSE,
           conflict_behavior |-> "none", remote |-> "none", xdg |-> TRUE]

\* ------------------------------------------------------- pure functions
\* mutant of CheckRemote: a remote folder fails only with behaviour "fail"
CheckRemote_FolderReplaced(conflict_behavior, remote) ==
    IF remote = "error" THEN "APIRequestError"
    ELSE IF remote \in {"folder", "file"} /\ conflict_behavior = "fail"
        THEN "onedrive.FileExistsError"
    ELSE ""

\* api.py:146-162: the exception the check of the remote path raises when
\* the metadata request finds `remote` there ("": none)
CheckRemote(conflict_behavior, remote) ==
    IF remote = "error" THEN "APIRequestError"
    ELSE IF remote = "folder"
        THEN IF conflict_behavior = "fail" THEN "onedrive.FileExistsError"
             ELSE "onedrive.IsADirectoryError"
    ELSE IF remote = "file" /\ conflict_behavior = "fail"
        THEN "onedrive.FileExistsError"
    ELSE ""

\* api.py:128
ClampThreshold(t) == Min(Max(0, t), MaxSimpleThreshold)

\* mutant of EffectiveChunkSize: the clamped value is rounded down
EffectiveChunkSize_RoundDown(c) ==
    (Min(Max(1, c), MaxChunkSize) \div ChunkUnit) * ChunkUnit

\* api.py:133
EffectiveChunkSize(c) ==
    (((Min(Max(1, c), MaxChunkSize) - 1) \div ChunkUnit) + 1) * ChunkUnit

\* mutant of UseSimpleUpload: a file of exactly threshold size is excluded
UseSimpleUpload_Strict(sz, threshold) == sz < threshold

\* api.py:165: the simple upload API is used for a file of sz bytes
UseSimpleUpload(sz, threshold) == sz <= threshold

\* number of chunks of a file of n bytes sent in chunks of c bytes
Chunks(n, c) == (n + c - 1) \div c

\* upload_helper.py:36: the Content-Range header 'bytes %d-%d/%d' of
\* stream_put_file_segment, as <<first byte, last byte, total>>
stream_put_file_segment_headers(start, length, tot) ==
    <<start, start + length - 1, tot>>

\* mutant of put_file_segment_headers: the last byte is the exclusive end
put_file_segment_headers_EndExclusive(start, length, tot) ==
    <<start, start + length, tot>>

\* upload_helper.py:50: the Content-Range header 'bytes %d-%d/%d' of
\* put_file_segment, as <<first byte, last byte, total>>
put_file_segment_headers(start, length, tot) ==
    <<start, start + length - 1, tot>>

\* upload_helper.py:15-18: the assertion of FileSegment.__init__ holds
FileSegment(start, length, tot) ==
    start < Min(start + length, tot)

\* mutant of ChunkLen: the last chunk is not cut at the end of the file
ChunkLen_Full(pos) == chunk_size

\* mutant of ChunkLen: an accepted chunk does not advance position
ChunkLen_Zero(pos) == 0

\* api.py:209: length of the chunk PUT at offset pos
ChunkLen(pos) == Min(chunk_size, total - pos)

\* mutant of is_weird_upload_error: 401 is listed among the known codes
is_weird_401_known(r) ==
    IF r.status_code = 416 /\ r.code = "notjson" THEN "raise"
    ELSE IF r.status_code = 416 /\ r.code = "fragmentRowCountCheckFailed"
        THEN "True"
    ELSE IF r.status_code \in {200, 201, 202, 401, 404, 416, 500, 502, 503, 504}
        THEN "False"
    ELSE "True"

\* mutant of is_weird_upload_error: 400 is listed among the known codes
is_weird_400_known(r) ==
    IF r.status_code = 416 /\ r.code = "notjson" THEN "raise"
    ELSE IF r.status_code = 416 /\ r.code = "fragmentRowCountCheckFailed"
        THEN "True"
    ELSE IF r.status_code \in {200, 201, 202, 400, 404, 416, 500, 502, 503, 504}
        THEN "False"
    ELSE "True"

\* mutant of is_weird_upload_error: 503 is missing from the known codes
is_weird_503_unknown(r) ==
    IF r.status_code = 416 /\ r.code = "notjson" THEN "raise"
    ELSE IF r.status_code = 416 /\ r.code = "fragmentRowCountCheckFailed"
        THEN "True"
    ELSE IF r.status_code \in {200, 201, 202, 404, 416, 500, 502, 504}
        THEN "False"
    ELSE "True"

\* api.py:423-456; "raise" stands for the ValueError of response.json()
is_weird_upload_error(r) ==
    IF r.status_code = 416 /\ r.code = "notjson" THEN "raise"
    ELSE IF r.status_code = 416 /\ r.code = "fragmentRowCountCheckFailed"
        THEN "True"
    ELSE IF r.status_code \in {200, 201, 202, 404, 416, 500, 502, 503, 504}
        THEN "False"
    ELSE "True"

\* mutant of FlagAfter: an accepted chunk leaves the flag as it was
FlagAfter_Sticky(r, w) ==
    IF r.status_code \in {200, 201, 202} THEN w
    ELSE IF r.status_code = 404 THEN FALSE
    ELSE IF r.status_code = 401 THEN TRUE
    ELSE IF r.status_code = 416 /\ r.code = "fragmentRowCountCheckFailed"
        THEN TRUE
    ELSE IF r.status_code \in {416, 500, 502, 503, 504} THEN FALSE
    ELSE TRUE

\* mutant of FlagAfter: only an accepted chunk clears the flag
FlagAfter_ProgressOnly(r, w) ==
    IF r.status_code \in {200, 201, 202} THEN FALSE
    ELSE IF r.status_code = 404 THEN w
    ELSE IF is_weird_upload_error(r) = "True" THEN TRUE
    ELSE w

\* api.py:221-247: the anomaly flag after chunk response r is handled
\* without raising, w being the flag before
FlagAfter(r, w) ==
    IF r.status_code \in {200, 201, 202} THEN FALSE
    ELSE IF r.status_code = 404 THEN FALSE
    ELSE IF is_weird_upload_error(r) = "True" THEN TRUE
    ELSE FALSE

\* mutant of upload_verify_hash: the two digests are not compared
upload_verify_hash_NoCompare(r) ==
    IF r.sha1 = "absent" THEN "UploadError"
    ELSE ""

\* mutant of upload_verify_hash: a response without digest passes
upload_verify_hash_AbsentOk(r) ==
    IF r.sha1 = "diff" THEN "UploadError"
    ELSE ""

\* mutant of InitiateError: a 404 is not told apart from other failures
InitiateError_404AsOther(status_code, has_url) ==
    IF status_code # 200 THEN "UploadError"
    ELSE IF ~has_url THEN "UploadError"
    ELSE ""

\* api.py:351-366: the exception _initiate_upload_session raises on a
\* createSession response with status_code, has_url telling whether its
\* body has the key uploadUrl ("": none)
InitiateError(status_code, has_url) ==
    IF status_code = 404 THEN "onedrive.FileNotFoundError"
    ELSE IF status_code # 200 THEN "UploadError"
    ELSE IF ~has_url THEN "UploadError"
    ELSE ""

\* api.py:458-503: "" when the digests agree, else the exception raised
upload_verify_hash(r) ==
    IF r.sha1 = "absent" THEN "UploadError"
    ELSE IF r.sha1 # "same" THEN "UploadError"
    ELSE ""

\* mutant of SessionLoaded: a session object is never truthy
SessionLoaded_Never(s) == FALSE

\* save.py:51-53
SessionLoaded(s) == s # {}

\* mutant of Unexpired: a record that expires exactly now is still loaded
Unexpired_Inclusive(r, now) == r.expires >= now

\* save.py:73: a record on disk is loaded at time now
Unexpired(r, now) == r.expires > now

\* save.py:68-85: the session loaded from file content d at time now
LoadSession(d, now) == {r \in d : Unexpired(r, now)}

\* mutant of LoadDisk: load removes the file whether expired or not
LoadDisk_AlwaysRemove(d, now) == {}

\* save.py:68-85: the file content after load (an expired file is removed)
LoadDisk(d, now) == IF \E r \in d : ~Unexpired(r, now) THEN {} ELSE d

\* save.py:87-100
SaveRecord(url, dt) == [upload_url |-> url, expires |-> ArrowTimestamp(dt)]

\* the content of a session file that open(..., "w") of save.py:97 has
\* truncated and that save.py:98-99 has not yet written and closed: empty,
\* or the beginning of a record; json.load of it raises ValueError
Truncated == [upload_url |-> NoUrl, expires |-> 0 - 1]

\* ----------------------------------------------------------------- Init
\* what an earlier invocation can have left as the session file
InitialDisks ==
    {{}, {Truncated}}
    \cup {{[upload_url |-> Url(0, {}), expires |-> e]} : e \in Times}

\* the variables of the put helper before it is called
IdlePut ==
    /\ put_pc = "idle"
    /\ retry = 0
    /\ attempts = 0
    /\ put_status = 0
    /\ last_exc = "none"

\* the variables of a batch command before it starts
IdleBatch ==
    /\ command = "none"
    /\ items = <<>>
    /\ results = <<>>
    /\ returncode = 0
    /\ batch_pc = "idle"

Workers == {1, 2}

\* the variables of the upload workers when there are none
IdleWorkers ==
    /\ keys = [w \in Workers |-> [remote_path |-> <<>>, sha1sum |-> <<>>]]
    /\ files = <<>>
    /\ touched = [w \in Workers |-> {}]
    /\ worker_pc = [w \in Workers |-> "new"]
    /\ actor = 0

\* the root of the drive: the empty path
Root == <<>>

\* the variables of rename and move before a call, on an empty drive
IdleRename ==
    /\ tree = [p \in {Root} |-> "directory"]
    /\ before = [p \in {Root} |-> "directory"]
    /\ src = Root
    /\ dst = Root
    /\ called = "none"
    /\ raised = ""

\* the variables of the chunk size computation before upload is called
IdleSize ==
    /\ kw_chunk_size = {}
    /\ eff_chunk_size = 0

\* the variables of the upload call before upload is called
IdleUpload ==
    /\ pc = "idle"
    /\ err = ""
    /\ path = "none"
    /\ total = 0
    /\ threshold_arg = 0
    /\ simple_upload_threshold = 0
    /\ chunk_size = ChunkUnit
    /\ compare_hash = FALSE
    /\ upload_url = NoUrl
    /\ position = 0
    /\ weird_error = FALSE
    /\ response = NoResponse
    /\ prev = "none"
    /\ prev2_anomalous = FALSE
    /\ sent = <<>>
    /\ happy = TRUE
    /\ issued = 0
    /\ slept = 0
    /\ uploadUrl = NoUrl
    /\ logged = NoUrl
    /\ net_error = NoNetError
    /\ init_status = 0
    /\ expected_ranges = <<>>
    /\ remote_exists = "unknown"
    /\ call = NoCall
    /\ IdlePut

Init ==
    /\ IdleUpload
    /\ IdleBatch
    /\ IdleWorkers
    /\ IdleRename
    /\ IdleSize
    /\ stream = FALSE
    /\ session_obj = FALSE
    /\ session = {}
    /\ disk \in InitialDisks
    /\ clock = 0
    /\ found = {}
    /\ op = "none"

\* mutant of Attempts: every request is tried retries + 1 times
Attempts_AllRetried(request) == retries + 1

\* the attempts of a request that all end in a network-level exception
\* before the exception reaches the caller of upload: the loop of the put
\* helpers for a chunk PUT (upload_helper.py:34-45, 51-60), a single call of
\* the client for the others (api.py:311, 350, 393-397, 618)
Attempts(request) == IF request = "put" THEN retries + 1 ELSE 1

\* mutant of Created: 202 Accepted passes as a created status
Created_Accepted(r) == r.status_code \in {200, 201, 202}

\* api.py:264: the status of r is 200 OK or 201 Created
Created(r) == r.status_code \in {200, 201}

\* api.py:408: the None that _get_upload_position returns when no range is
\* missing and the file exists
NoPosition == 0 - 1

\* mutant of Backoff: after an anomaly the client sleeps 30 seconds only
Backoff_AnomalyOnly(r, weird) ==
    IF weird THEN 30 ELSE IF r.status_code >= 500 THEN 30 ELSE 3

\* api.py:243-244 and 249-253: seconds slept after a chunk response r that
\* is retried, weird being the flag as the response left it
Backoff(r, weird) ==
    (IF weird THEN 30 ELSE 0) + (IF r.status_code >= 500 THEN 30 ELSE 3)

\* mutant of NextAfterRetry: the chunk is PUT again from the position held
NextAfterRetry_Resend == "put"

\* api.py:254: after a retried chunk response and the sleep, the request
\* that follows is the status request of _get_upload_position
NextAfterRetry == "status"

\* ------------------------------------------------------ action fragments
Raise(e) == pc' = "failed" /\ err' = e

\* api.py:258-277: the code after the chunk loop, with last response r,
\* in-memory session s and session file d
Finish(r, s, d) ==
    IF r = NoResponse
    THEN Raise("AttributeError") /\ session' = s /\ disk' = d
    ELSE IF ~Created(r)
    THEN Raise("UploadError") /\ session' = s /\ disk' = d
    ELSE IF compare_hash /\ upload_verify_hash(r) # ""
    THEN Raise(upload_verify_hash(r)) /\ session' = s /\ disk' = d
    ELSE /\ pc' = "done"
         /\ err' = ""
         /\ IF session_obj /\ SessionLoaded(s)
            THEN session' = {} /\ disk' = {}
            ELSE session' = s /\ disk' = d

\* api.py:208-219: the head of the chunk loop, entered with position pos,
\* last response r and range log lg: PUT the next chunk or leave the loop
WhileLoop(pos, r, s, d, lg) ==
    /\ position' = pos
    /\ IF pos < total
       THEN /\ pc' = "put"
            /\ err' = ""
            /\ session' = s
            /\ disk' = d
            /\ sent' = Append(lg, <<pos, pos + ChunkLen(pos)>>)
       ELSE /\ Finish(r, s, d)
            /\ sent' = lg

\* mutant of StartOver: the session is written to disk without a session
\* object
StartOver_AlwaysSave(raw_url, dt) ==
    /\ upload_url' = pop_query_from_url(raw_url, "access_token")
    /\ WhileLoop(0, response, session, {SaveRecord(upload_url', dt)}, <<>>)

\* mutant of StartOver: the session is kept in memory, not written to disk
StartOver_NoSave(raw_url, dt) ==
    /\ upload_url' = pop_query_from_url(raw_url, "access_token")
    /\ IF session_obj
       THEN WhileLoop(0, response, {SaveRecord(upload_url', dt)}, disk, <<>>)
       ELSE WhileLoop(0, response, session, disk, <<>>)

\* mutant of StartOver: position is not reset when a session is issued
StartOver_KeepPosition(raw_url, dt) ==
    /\ upload_url' = pop_query_from_url(raw_url, "access_token")
    /\ IF session_obj
       THEN WhileLoop(position, response, {SaveRecord(upload_url', dt)},
                      {SaveRecord(upload_url', dt)}, <<>>)
       ELSE WhileLoop(position, response, session, disk, <<>>)

\* mutant of StartOver: a session issued after a restart is not saved over
\* the record of the session before it
StartOver_SaveOnce(raw_url, dt) ==
    /\ upload_url' = pop_query_from_url(raw_url, "access_token")
    /\ IF session_obj
       THEN WhileLoop(0, response, {SaveRecord(upload_url', dt)},
                      IF disk = {} THEN {SaveRecord(upload_url', dt)}
                      ELSE disk, <<>>)
       ELSE WhileLoop(0, response, session, disk, <<>>)

\* api.py:368-375, then 195 or 231 and the loop head: a session was issued
\* under raw_url and expires at dt; strip the credential, save, start at 0
StartOver(raw_url, dt) ==
    /\ upload_url' = pop_query_from_url(raw_url, "access_token")
    /\ IF session_obj
       THEN WhileLoop(0, response, {SaveRecord(upload_url', dt)},
                      {SaveRecord(upload_url', dt)}, <<>>)
       ELSE WhileLoop(0, response, session, disk, <<>>)

\* -------------------------------------------------------------- actions
\* api.py:36-195 (and 279-313 on the simple path): one call of upload, from
\* the keyword arguments to its first upload request.  `local` is what
\* local_path names, `remote` what the metadata request finds at the remote
\* path ("error": neither 200 nor 404), `xdg` whether XDG_DATA_HOME is set,
\* `now` the reading of time.time() in SavedUploadSession.load.
Upload ==
    /\ pc = "idle"
    /\ UNCHANGED component_vars
    /\ UNCHANGED net_error
    /\ \E sz \in FileSizes, t \in ThresholdArgs, c \in ChunkSizeArgs,
          ch \in BOOLEAN, local \in {"file", "missing", "directory"},
          check_remote \in BOOLEAN,
          conflict_behavior \in {"fail", "replace", "rename"},
          remote \in {"absent", "file", "folder", "error"},
          xdg \in BOOLEAN, now \in Times :
        /\ ~UseSimpleUpload(sz, ClampThreshold(t))
              => Chunks(sz, EffectiveChunkSize(c)) <= MaxChunks
        /\ threshold_arg' = t
        /\ simple_upload_threshold' = ClampThreshold(t)
        /\ chunk_size' = EffectiveChunkSize(c)
        /\ compare_hash' = ch
        /\ uploadUrl' = NoUrl
        /\ logged' = NoUrl
        /\ call' = [local |-> local, check_remote |-> check_remote,
                    conflict_behavior |-> conflict_behavior,
                    remote |-> remote, xdg |-> xdg]
        /\ UNCHANGED <<position, weird_error, response, prev, prev2_anomalous,
                       sent, happy, issued, slept, replies, found, op>>
        /\ IF local = "missing"
           THEN /\ Raise("FileNotFoundError")
                /\ UNCHANGED <<path, total, session_obj, session, disk,
                               upload_url>>
           ELSE IF local = "directory"
           THEN /\ Raise("IsADirectoryError")
                /\ UNCHANGED <<path, total, session_obj, session, disk,
                               upload_url>>
           ELSE IF check_remote /\ CheckRemote(conflict_behavior, remote) # ""
           THEN /\ Raise(CheckRemote(conflict_behavior, remote))
                /\ UNCHANGED <<path, total, session_obj, session, disk,
                               upload_url>>
           ELSE
             /\ total' = sz
             /\ IF UseSimpleUpload(sz, simple_upload_threshold')
                THEN \* _simple_upload: hash if asked, then one PUT
                     /\ path' = "simple"
                     /\ pc' = "simple"
                     /\ err' = ""
                     /\ UNCHANGED <<session_obj, session, disk, upload_url>>
                ELSE IF ch /\ ~xdg
                THEN \* save.py:61 os.path.expanduser called with two arguments
                     /\ path' = "resumable"
                     /\ Raise("TypeError")
                     /\ UNCHANGED <<session_obj, session, disk, upload_url>>
                ELSE IF ch /\ Truncated \in disk
                THEN \* save.py:72 json.load of a file left truncated
                     /\ path' = "resumable"
                     /\ Raise("ValueError")
                     /\ UNCHANGED <<session_obj, session, disk, upload_url>>
                ELSE IF ch
                THEN /\ path' = "resumable"
                     /\ session_obj' = TRUE
                     /\ session' = LoadSession(disk, now)
                     /\ disk' = LoadDisk(disk, now)
                     /\ err' = ""
                     /\ IF SessionLoaded(session')
                        THEN /\ pc' = "status"
                             /\ upload_url' =
                                  (CHOOSE r \in session' : TRUE).upload_url
                        ELSE /\ pc' = "init"
                             /\ UNCHANGED upload_url
                ELSE /\ path' = "resumable"
                     /\ session_obj' = FALSE
                     /\ pc' = "init"
                     /\ err' = ""
                     /\ UNCHANGED <<session, disk, upload_url>>
        /\ clock' = (IF session_obj' THEN now ELSE clock)

\* api.py:311-320: the response to the PUT of the simple upload (kept in
\* `response`), sha1 being file.hashes.sha1Hash of the created item
\* relative to the digest computed at api.py:301
SimpleResponse ==
    /\ pc = "simple"
    /\ UNCHANGED component_vars
    /\ UNCHANGED net_error
    /\ call' = NoCall
    /\ uploadUrl' = NoUrl
    /\ logged' = NoUrl
    /\ \E status_code \in {200, 201, 202, 400, 500},
          sha1 \in {"same", "diff", "absent"} :
        /\ status_code \notin {200, 201} => sha1 = "absent"
        /\ response' = Resp(status_code, "absent", sha1)
        /\ IF status_code \in {200, 201}
           THEN pc' = "done" /\ err' = ""
           ELSE Raise("UploadError")
    /\ UNCHANGED <<args, session, disk, upload_url, position, weird_error,
                   prev, prev2_anomalous, sent, happy, issued, slept, replies,
                   store_hist>>

\* api.py:349-375 then 195/231 and the loop head: the response to the
\* createSession request
InitResponse ==
    /\ pc = "init"
    /\ UNCHANGED component_vars
    /\ UNCHANGED net_error
    /\ call' = NoCall
    /\ \E status_code \in {200, 201, 404, 500}, has_url \in BOOLEAN,
          q \in ServerQueries, dt \in ExpirationDateTimes :
        /\ init_status' = status_code
        /\ uploadUrl' = (IF status_code = 200 /\ has_url
                         THEN Url(issued + 1, q) ELSE NoUrl)
        /\ logged' = log_response(uploadUrl')
        /\ IF InitiateError(status_code, has_url) # ""
           THEN /\ Raise(InitiateError(status_code, has_url))
                /\ UNCHANGED <<session, disk, upload_url, position, sent,
                               issued>>
           ELSE /\ issued < MaxSessions
                /\ issued' = issued + 1
                /\ StartOver(Url(issued + 1, q), dt)
    /\ slept' = 0
    /\ UNCHANGED <<args, weird_error, response, prev, prev2_anomalous,
                   happy, expected_ranges, remote_exists, store_hist>>

\* the nextExpectedRanges lists the status request can return
RangeLists ==
    {<<>>} \cup {<< <<a, total - 1>> >> : a \in RangeStarts(chunk_size, total)}
    \cup {<< <<0, 0>>, <<chunk_size, total - 1>> >>}

\* mutant of RangeStart: the offset the status names is ignored
RangeStart_Zero(ranges) == 0

\* api.py:421: int(expected_ranges[0].split("-")[0])
RangeStart(ranges) == ranges[1][1]

\* mutant of MultiRange: two ranges pass, the first gives the position
MultiRange_OffByOne(ranges) == Len(ranges) > 2

\* api.py:415: more than one range is expected
MultiRange(ranges) == Len(ranges) > 1

\* api.py:402-421 then the loop head: a status response with status 200
\* that expects `ranges`
StatusRanges(ranges) ==
    IF ranges = <<>>
    THEN /\ pc' = "exists"
         /\ err' = ""
         /\ slept' = 30
         /\ UNCHANGED <<session, disk, position, sent>>
    ELSE IF MultiRange(ranges)
    THEN /\ Raise("UploadError")
         /\ slept' = 0
         /\ UNCHANGED <<session, disk, position, sent>>
    ELSE /\ WhileLoop(RangeStart(ranges), response, session, disk, <<>>)
         /\ slept' = 0

\* api.py:393-421 then the loop head: the response to the status request
StatusResponse ==
    /\ pc = "status"
    /\ UNCHANGED component_vars
    /\ UNCHANGED net_error
    /\ call' = NoCall
    /\ uploadUrl' = NoUrl
    /\ logged' = NoUrl
    /\ \E status_code \in {200, 500}, ranges \in RangeLists :
        IF status_code # 200
        THEN /\ Raise("UploadError")
             /\ slept' = 0
             /\ UNCHANGED <<session, disk, position, sent, expected_ranges>>
        ELSE /\ expected_ranges' = ranges
             /\ StatusRanges(ranges)
    /\ UNCHANGED <<args, upload_url, weird_error, response, prev,
                   prev2_anomalous, happy, issued, init_status, remote_exists,
                   store_hist>>

\* api.py:407-412 with 527-536 and 617-621: the response to the metadata
\* request of self.exists(path); when the file exists, 192/254 and
\* `while position < total` with the position None that
\* _get_upload_position returned
ExistsResponse ==
    /\ pc = "exists"
    /\ UNCHANGED component_vars
    /\ UNCHANGED net_error
    /\ call' = NoCall
    /\ uploadUrl' = NoUrl
    /\ logged' = NoUrl
    /\ \E status_code \in {200, 404, 500} :
        IF status_code = 200
        THEN /\ remote_exists' = "yes"
             /\ position' = NoPosition
             /\ Raise("TypeError")
        ELSE IF status_code = 404
        THEN /\ remote_exists' = "no"
             /\ Raise("UploadError")
             /\ UNCHANGED position
        ELSE /\ UNCHANGED <<remote_exists, position>>
             /\ Raise("APIRequestError")
    /\ slept' = 0
    /\ UNCHANGED <<args, session, disk, upload_url, weird_error,
                   response, prev, prev2_anomalous, sent, happy, issued,
                   init_status, expected_ranges, store_hist>>

\* api.py:209-256 with upload_helper.py:31-60: one call of the put helper
\* that returns response r after `failures` attempts ended in a
\* network-level exception, and the handling of r in the chunk loop
ChunkResponse ==
    /\ pc = "put"
    /\ UNCHANGED component_vars
    /\ UNCHANGED net_error
    /\ call' = NoCall
    /\ uploadUrl' = NoUrl
    /\ logged' = NoUrl
    /\ \E r \in ChunkResponses, failures \in NetworkFailures :
        /\ response' = r
        /\ prev' = TableClass(response)
        /\ prev2_anomalous' = (prev = "AnomalousRetry")
        /\ happy' = (happy /\ failures = 0
                     /\ r.status_code \in {200, 201, 202})
        /\ IF r.status_code \in {200, 201, 202}
           THEN /\ weird_error' = FlagAfter(r, weird_error)
                /\ WhileLoop(position + ChunkLen(position), r, session, disk,
                             sent)
                /\ slept' = 0
           ELSE IF r.status_code = 404
           THEN /\ weird_error' = FlagAfter(r, weird_error)
                /\ pc' = "init"
                /\ err' = ""
                /\ slept' = 0
                /\ UNCHANGED <<session, disk, position, sent>>
           ELSE IF is_weird_upload_error(r) = "raise"
           THEN /\ Raise("ValueError")
                /\ slept' = 0
                /\ UNCHANGED <<session, disk, position, sent, weird_error>>
           ELSE IF is_weird_upload_error(r) = "True" /\ weird_error
           THEN /\ Raise("UploadError")
                /\ slept' = 0
                /\ UNCHANGED <<session, disk, position, sent, weird_error>>
           ELSE /\ weird_error' = FlagAfter(r, weird_error)
                /\ slept' = Backoff(r, weird_error')
                /\ pc' = NextAfterRetry
                /\ err' = ""
                /\ UNCHANGED <<session, disk, position, sent>>
    /\ UNCHANGED <<args, upload_url, issued, replies, store_hist>>

\* upload_helper.py:34-45 and 51-60: every one of the retries + 1 attempts
\* of one call of the put helper ends in a network-level exception, and the
\* last one is re-raised
ChunkNetworkError ==
    /\ pc = "put"
    /\ UNCHANGED component_vars
    /\ net_error' = [request |-> pc, attempts |-> Attempts(pc)]
    /\ call' = NoCall
    /\ uploadUrl' = NoUrl
    /\ logged' = NoUrl
    /\ happy' = FALSE
    /\ Raise("RequestException")
    /\ UNCHANGED <<args, session, disk, upload_url, position, weird_error,
                   response, prev, prev2_anomalous, sent, issued, slept,
                   replies, store_hist>>

\* a network-level exception of the simple PUT, the createSession request,
\* the status request (api.py:393-397) or the existence check
RequestNetworkError ==
    /\ pc \in {"simple", "init", "status", "exists"}
    /\ UNCHANGED component_vars
    /\ net_error' = [request |-> pc, attempts |-> Attempts(pc)]
    /\ call' = NoCall
    /\ uploadUrl' = NoUrl
    /\ logged' = NoUrl
    /\ Raise("RequestException")
    /\ UNCHANGED <<args, session, disk, upload_url, position, weird_error,
                   response, prev, prev2_anomalous, sent, happy, issued,
                   slept, replies, store_hist>>

\* a KeyboardInterrupt while upload blocks on a request or, the state being
\* the same, in the sleep that precedes it (api.py:240, 247-249, 406); no
\* handler of api.py, upload_helper.py or auth.py catches it
Interrupt ==
    /\ pc \in {"simple", "init", "status", "exists", "put"}
    /\ UNCHANGED component_vars
    /\ UNCHANGED net_error
    /\ call' = NoCall
    /\ uploadUrl' = NoUrl
    /\ logged' = NoUrl
    /\ Raise("KeyboardInterrupt")
    /\ happy' = (happy /\ pc # "put")
    /\ UNCHANGED <<args, session, disk, upload_url, position, weird_error,
                   response, prev, prev2_anomalous, sent, issued, slept,
                   replies, store_hist>>

Next ==
    \/ Upload
    \/ SimpleResponse
    \/ InitResponse
    \/ StatusResponse
    \/ ExistsResponse
    \/ ChunkResponse
    \/ ChunkNetworkError
    \/ RequestNetworkError
    \/ Interrupt

Spec == Init /\ [][Next]_vars

\* upload blocks on one request at a time and no request blocks for ever:
\* each is answered or ends in an exception (timeout=15 of api.py:117 on
\* the chunk PUTs), so some step of the call is always taken
\* The calls of upload that leave simple_upload_threshold and chunk_size at
\* their defaults (api.py:113, 116).
LiveUpload ==
    /\ Upload
    /\ threshold_arg' = 10485760
    /\ chunk_size' = 10485760

LiveNext ==
    \/ LiveUpload
    \/ SimpleResponse
    \/ InitResponse
    \/ StatusResponse
    \/ ExistsResponse
    \/ ChunkResponse
    \/ ChunkNetworkError
    \/ RequestNetworkError
    \/ Interrupt

LiveSpec == Init /\ [][LiveNext]_vars /\ WF_vars(LiveNext)

\* ------------------------------------------------- the session store
\* SavedUploadSession (save.py) for one (remote_path, sha1sum) key, driven
\* by arbitrary calls of its methods while the clock advances.  The upload
\* variables stay as before a call of upload.
StoreUrls == {Url(i, q) : i \in 1..MaxSessions, q \in ServerQueries}

StoreInit ==
    /\ IdleUpload
    /\ IdleBatch
    /\ IdleWorkers
    /\ IdleRename
    /\ IdleSize
    /\ stream = FALSE
    /\ session_obj = FALSE
    /\ session = {}
    /\ disk \in InitialDisks
    /\ clock = 1
    /\ found = {}
    /\ op = "none"

upload_vars_only == <<pc, err, path, total, threshold_arg,
                      simple_upload_threshold, chunk_size, compare_hash,
                      upload_url, position, weird_error, response, prev,
                      prev2_anomalous, sent, happy, issued, slept, replies,
                      call, uploadUrl, logged, net_error>>

upload_vars == <<pc, err, path, total, threshold_arg, simple_upload_threshold,
                 chunk_size, compare_hash, upload_url, position, weird_error,
                 response, prev, prev2_anomalous, sent, happy, issued, slept,
                 replies, call, uploadUrl, logged, net_error,
                 component_vars>>

\* save.py:68-85
StoreLoad ==
    /\ session_obj
    /\ op # "save_open"
    /\ Truncated \notin disk
    /\ found' = disk
    /\ session' = LoadSession(disk, clock)
    /\ disk' = LoadDisk(disk, clock)
    /\ op' = "load"
    /\ UNCHANGED <<upload_vars, session_obj, clock>>

\* save.py:46-49: the constructor locates the file and loads
StoreConstruct ==
    /\ ~session_obj
    /\ Truncated \notin disk
    /\ session_obj' = TRUE
    /\ found' = disk
    /\ session' = LoadSession(disk, clock)
    /\ disk' = LoadDisk(disk, clock)
    /\ op' = "load"
    /\ UNCHANGED <<upload_vars, clock>>

\* save.py:70-72: load, by the constructor or later, by this process or by
\* another one while this one is inside save, of a truncated file: json.load
\* raises ValueError, which nothing catches; the file stays
StoreLoadTruncated ==
    /\ Truncated \in disk
    /\ found' = disk
    /\ op' = (IF op = "save_open" THEN op ELSE "load_error")
    /\ UNCHANGED <<upload_vars, session_obj, session, disk, clock>>

\* save.py:94-97: save sets the attributes and opens the session file for
\* writing, which truncates it
StoreSaveOpen ==
    /\ session_obj
    /\ op # "save_open"
    /\ \E url \in StoreUrls, dt \in [sec : Times, frac : {0, 5}] :
        session' = {SaveRecord(url, dt)}
    /\ disk' = {Truncated}
    /\ op' = "save_open"
    /\ UNCHANGED <<upload_vars, session_obj, clock, found>>

\* save.py:98-100: json.dump and the close of the file at the end of the
\* with block
StoreSaveWrite ==
    /\ op = "save_open"
    /\ disk' = session
    /\ op' = "save"
    /\ UNCHANGED <<upload_vars, session_obj, session, clock, found>>

\* the process is interrupted or killed between save.py:97 and the close of
\* the file; its session object is gone, the file stays as it is
StoreSaveInterrupt ==
    /\ op = "save_open"
    /\ session_obj' = FALSE
    /\ session' = {}
    /\ op' = "interrupted"
    /\ UNCHANGED <<upload_vars, disk, clock, found>>

\* mutant of DiscardReturns: FileNotFoundError of os.remove is not caught
DiscardReturns_FileRequired(d) == d # {}

\* save.py:104-107: os.remove of the session file d, FileNotFoundError
\* passed over: discard returns whether or not the file exists
DiscardReturns(d) == TRUE

\* save.py:102-110
StoreDiscard ==
    /\ session_obj
    /\ op # "save_open"
    /\ DiscardReturns(disk)
    /\ disk' = {}
    /\ session' = {}
    /\ op' = "discard"
    /\ UNCHANGED <<upload_vars, session_obj, clock, found>>

\* time passes
Tick ==
    /\ clock < MaxTime
    /\ clock' = clock + 1
    /\ UNCHANGED <<upload_vars, session_obj, session, disk, found, op>>

StoreNext ==
    \/ StoreConstruct
    \/ StoreLoad
    \/ StoreLoadTruncated
    \/ StoreSaveOpen
    \/ StoreSaveWrite
    \/ StoreSaveInterrupt
    \/ StoreDiscard
    \/ Tick

StoreSpec == StoreInit /\ [][StoreNext]_vars

\* ------------------------------------------------- the put helpers
\* One call of stream_put_file_segment or put_file_segment
\* (upload_helper.py), attempt by attempt.  The upload and session store
\* variables stay as before a call of upload.
PutStatuses == {200, 201, 202, 401, 404, 416, 500, 503}

\* requests.exceptions.RequestException subclasses; a timeout is one
PutExceptions == {"Timeout", "ConnectionError"}

PutInit ==
    /\ IdleUpload
    /\ IdleBatch
    /\ IdleWorkers
    /\ IdleRename
    /\ IdleSize
    /\ stream \in BOOLEAN
    /\ session_obj = FALSE
    /\ session = {}
    /\ disk = {}
    /\ clock = 0
    /\ found = {}
    /\ op = "none"

put_frame == <<upload_vars_only, session_obj, session, disk, store_hist,
               batch_vars, worker_vars, rename_vars, size_vars>>

\* mutant of LastAttempt: the exception is re-raised one attempt early
LastAttempt_OneEarly(r) == r = retries - 1

\* upload_helper.py:44 and 59: `if retry == retries`
LastAttempt(r) == r = retries

\* upload_helper.py:34-38 and 50-53: the call enters the loop and sends the
\* first PUT
PutCall ==
    /\ put_pc = "idle"
    /\ put_pc' = "sending"
    /\ retry' = 0
    /\ attempts' = 1
    /\ UNCHANGED <<put_frame, stream, put_status, last_exc>>

\* upload_helper.py:38 and 53: session.put returns a response, which the
\* helper returns whatever its status
PutAttemptResponse ==
    /\ put_pc = "sending"
    /\ \E status_code \in PutStatuses : put_status' = status_code
    /\ put_pc' = "returned"
    /\ UNCHANGED <<put_frame, stream, retry, attempts, last_exc>>

\* upload_helper.py:39-45 and 54-60: session.put raises a
\* RequestException: log it, re-raise it on the last attempt, else go
\* round the loop and send the PUT again
PutAttemptException ==
    /\ put_pc = "sending"
    /\ \E exc \in PutExceptions : last_exc' = exc
    /\ IF LastAttempt(retry)
       THEN /\ put_pc' = "raised"
            /\ UNCHANGED <<retry, attempts>>
       ELSE /\ put_pc' = "sending"
            /\ retry' = retry + 1
            /\ attempts' = attempts + 1
    /\ UNCHANGED <<put_frame, stream, put_status>>

PutNext ==
    \/ PutCall
    \/ PutAttemptResponse
    \/ PutAttemptException

PutSpec == PutInit /\ [][PutNext]_vars

\* the session store as before any call of upload, without a session file
IdleStore ==
    /\ stream = FALSE
    /\ session_obj = FALSE
    /\ session = {}
    /\ disk = {}
    /\ clock = 0
    /\ found = {}
    /\ op = "none"

upload_frame == <<upload_vars_only, session_obj, session, disk, store_hist>>

\* ------------------------------------------------- the batch commands
\* One run of a command that takes several items (cli.py), item by item.
\* Every item either can be handled or makes the API call made for it
\* raise an exception (an Exception, not a KeyboardInterrupt).
Commands ==
    {"upload", "dirupload", "download", "mkdir", "rm", "rmdir", "mv", "cp"}

\* dirupload walks the local tree: it creates every remote directory
\* first and uploads the files afterwards (cli.py:190-200, 210-226)
ItemKinds(c) == IF c = "dirupload" THEN {"directory", "file"} ELSE {"item"}

\* cli.py:190: os.walk yields the root directory first; cli.py:203: the
\* files are uploaded after all directories are made
DirsFirst(b) ==
    /\ b[1].kind = "directory"
    /\ \A i \in DOMAIN b : \A j \in DOMAIN b :
        (i < j /\ b[i].kind = "file") => b[j].kind = "file"

Batches(c) ==
    {b \in UNION {[1..n -> [kind : ItemKinds(c), ok : BOOLEAN]] :
                      n \in 1..MaxItems} :
        c = "dirupload" => DirsFirst(b)}

batch_frame ==
    <<upload_frame, put_vars, worker_vars, rename_vars, size_vars>>

\* cli.py:61-74 Uploader.__call__, 492-506 Downloader.__call__, 644-658
\* CopyWorker.run: 0, or 1 when the API call raised
WorkerReturn(ok) == IF ok THEN 0 ELSE 1

\* cli.py:606, 766-769: CopyWorker is a multiprocessing.Process, and
\* worker.exitcode is the exit code of the child process.  A child whose
\* run() returns exits with code 0: the value run() returned is dropped.
ProcessExitCode(run_result) == 0

\* the exit status of the command: its return code, or 1 when an exception
\* left it uncaught
ExitStatus == IF batch_pc = "raised" THEN 1 ELSE returncode

\* the command parses its arguments and reaches its loop
\* (cli.py:142, 180-189, 528, 547, 574, 595, 744)
BatchStart ==
    /\ batch_pc = "idle"
    /\ \E c \in Commands : \E b \in Batches(c) :
        /\ command' = c
        /\ items' = b
    /\ results' = <<>>
    /\ returncode' = 0
    /\ batch_pc' = "running"
    /\ UNCHANGED batch_frame

\* cli.py:548-559 mkdir, 575-582 rm, 596-603 rmdir, 747-755 mv: the API
\* call of the next item in try/except Exception; a failure sets
\* returncode to 1 and the loop goes on
LoopItem ==
    /\ batch_pc = "running"
    /\ command \in {"mkdir", "rm", "rmdir", "mv"}
    /\ Len(results) < Len(items)
    /\ LET ok == items[Len(results) + 1].ok
       IN  /\ results' = Append(results, IF ok THEN 0 ELSE 1)
           /\ returncode' = (IF ok THEN returncode ELSE 1)
    /\ UNCHANGED <<command, items, batch_pc, batch_frame>>

\* cli.py:142-146 and 528-530: pool.map collects what the callable returned
\* for every item
PoolItem ==
    /\ batch_pc = "running"
    /\ command \in {"upload", "download"}
    /\ Len(results) < Len(items)
    /\ results' = Append(results, WorkerReturn(items[Len(results) + 1].ok))
    /\ UNCHANGED <<command, items, returncode, batch_pc, batch_frame>>

\* cli.py:760-769: the worker of the next item is joined and its exit
\* code examined
CopyItem ==
    /\ batch_pc = "running"
    /\ command = "cp"
    /\ Len(results) < Len(items)
    /\ LET exitcode ==
               ProcessExitCode(WorkerReturn(items[Len(results) + 1].ok))
       IN  /\ results' = Append(results, exitcode)
           /\ returncode' = (IF exitcode # 0 THEN 1 ELSE returncode)
    /\ UNCHANGED <<command, items, batch_pc, batch_frame>>

\* cli.py:190-194: makedirs for the next directory, outside any
\* try/except Exception: an exception leaves cli_dirupload
DirUploadMakedirs ==
    /\ batch_pc = "running"
    /\ command = "dirupload"
    /\ Len(results) < Len(items)
    /\ items[Len(results) + 1].kind = "directory"
    /\ LET ok == items[Len(results) + 1].ok
       IN  /\ results' = Append(results, IF ok THEN 0 ELSE 1)
           /\ batch_pc' = (IF ok THEN "running" ELSE "raised")
    /\ UNCHANGED <<command, items, returncode, batch_frame>>

\* cli.py:210-226: upload of the next file in try/except Exception
DirUploadFile ==
    /\ batch_pc = "running"
    /\ command = "dirupload"
    /\ Len(results) < Len(items)
    /\ items[Len(results) + 1].kind = "file"
    /\ LET ok == items[Len(results) + 1].ok
       IN  /\ results' = Append(results, IF ok THEN 0 ELSE 1)
           /\ returncode' = (IF ok THEN returncode ELSE 1)
    /\ UNCHANGED <<command, items, batch_pc, batch_frame>>

\* cli.py:149 and 533 `return 1 if 1 in returncodes else 0`; cli.py:228,
\* 560, 583, 604, 773 `return returncode`
BatchReturn ==
    /\ batch_pc = "running"
    /\ Len(results) = Len(items)
    /\ returncode' =
           (IF command \in {"upload", "download"}
            THEN (IF \E i \in DOMAIN results : results[i] = 1
                  THEN 1 ELSE 0)
            ELSE returncode)
    /\ batch_pc' = "returned"
    /\ UNCHANGED <<command, items, results, batch_frame>>

BatchInit ==
    /\ IdleUpload
    /\ IdleStore
    /\ IdleBatch
    /\ IdleWorkers
    /\ IdleRename
    /\ IdleSize

BatchNext ==
    \/ BatchStart
    \/ LoopItem
    \/ PoolItem
    \/ CopyItem
    \/ DirUploadMakedirs
    \/ DirUploadFile
    \/ BatchReturn

BatchSpec == BatchInit /\ [][BatchNext]_vars

\* ------------------------------------------------- concurrent uploads
\* Two worker processes of one upload command (cli.py:142-146), each
\* uploading with compare_hash, and the session files under
\* $XDG_DATA_HOME/onedrive/saved_sessions.  Strings are sequences of
\* characters.
RemotePaths == {<<"a">>, <<"a", "\n", "0">>, <<"b">>}

\* lower-case SHA-1 hex digests of file contents (api.py:175-176): strings
\* of one length over the hex digits
Digests == {<<"0">>, <<"1">>}

Pairs == [remote_path : RemotePaths, sha1sum : Digests]

\* mutant of session_id: the ID is computed from the remote path alone
session_id_PathOnly(remote_path, sha1sum) == remote_path

\* save.py:63-64: SHA-1 of "{path}\n{sha1sum}".  SHA-1 is taken to be free
\* of collisions, so the ID is identified with the string it digests.
session_id(remote_path, sha1sum) == remote_path \o <<"\n">> \o sha1sum

\* save.py:48, 66: the file a worker's SavedUploadSession addresses (both
\* workers have the environment, hence the directory, of their parent)
SessionPath(w) == session_id(keys[w].remote_path, keys[w].sha1sum)

\* content of a session file: who wrote it (0: an earlier run) and whether
\* its expiry has passed
SessionFiles == {{}} \cup {{[writer |-> 0, expired |-> e]} : e \in BOOLEAN}

worker_frame ==
    <<upload_frame, put_vars, batch_vars, rename_vars, size_vars>>

WorkersInit ==
    /\ IdleUpload
    /\ IdleStore
    /\ IdleBatch
    /\ IdleRename
    /\ IdleSize
    /\ keys \in [Workers -> Pairs]
    /\ files \in [{session_id(k.remote_path, k.sha1sum) :
                       k \in {keys[w] : w \in Workers}} -> SessionFiles]
    /\ touched = [w \in Workers |-> {}]
    /\ worker_pc = [w \in Workers |-> "new"]
    /\ actor = 0

\* save.py:46-49, 68-85: the worker constructs its SavedUploadSession:
\* locate the file and load it, removing it when it has expired
WorkerConstruct(w) ==
    /\ worker_pc[w] = "new"
    /\ files' = [files EXCEPT ![SessionPath(w)] =
                     IF \E f \in @ : f.expired THEN {} ELSE @]
    /\ touched' = [touched EXCEPT ![w] = @ \cup {SessionPath(w)}]
    /\ worker_pc' = [worker_pc EXCEPT ![w] = "open"]
    /\ actor' = w
    /\ UNCHANGED <<keys, worker_frame>>

\* save.py:87-100: the worker saves a session it was issued
WorkerSave(w) ==
    /\ worker_pc[w] = "open"
    /\ \E e \in BOOLEAN :
        files' = [files EXCEPT ![SessionPath(w)] =
                      {[writer |-> w, expired |-> e]}]
    /\ touched' = [touched EXCEPT ![w] = @ \cup {SessionPath(w)}]
    /\ actor' = w
    /\ UNCHANGED <<keys, worker_pc, worker_frame>>

\* save.py:102-110: the worker's upload succeeded and discards the session
WorkerDiscard(w) ==
    /\ worker_pc[w] = "open"
    /\ files' = [files EXCEPT ![SessionPath(w)] = {}]
    /\ touched' = [touched EXCEPT ![w] = @ \cup {SessionPath(w)}]
    /\ worker_pc' = [worker_pc EXCEPT ![w] = "finished"]
    /\ actor' = w
    /\ UNCHANGED <<keys, worker_frame>>

\* cli.py:66-74: the worker's upload failed or was interrupted: the
\* callable returns and the session file stays as it is
WorkerFail(w) ==
    /\ worker_pc[w] = "open"
    /\ worker_pc' = [worker_pc EXCEPT ![w] = "finished"]
    /\ actor' = w
    /\ UNCHANGED <<keys, files, touched, worker_frame>>

WorkersNext ==
    \E w \in Workers :
        \/ WorkerConstruct(w)
        \/ WorkerSave(w)
        \/ WorkerDiscard(w)
        \/ WorkerFail(w)

WorkersSpec == WorkersInit /\ [][WorkersNext]_vars

\* ------------------------------------------------- rename and move
\* One call of rename or move (api.py) on a small drive.  A remote path is
\* the sequence of its components; the drive maps the paths of the items
\* it holds to "file" or "directory".  No other client changes the drive
\* during the call, and every request is answered.
Names == {"a", "b"}

ItemPaths == UNION {[1..n -> Names] : n \in 1..MaxDepth}

\* posixpath.dirname and posixpath.basename ("" for the root)
Dirname(p) == IF p = Root THEN Root ELSE SubSeq(p, 1, Len(p) - 1)

Basename(p) == IF p = Root THEN "" ELSE p[Len(p)]

\* p is q or an ancestor of q
IsPrefix(p, q) == Len(p) <= Len(q) /\ SubSeq(q, 1, Len(p)) = p

\* truth value of a Python str: false only when empty
Truthy(str) == str # ""

\* the drives: every item but the root lies in a directory
Trees ==
    LET Layouts ==
            {t \in [ItemPaths -> {"absent", "file", "directory"}] :
                \A p \in ItemPaths :
                    (t[p] # "absent" /\ Dirname(p) # Root)
                        => t[Dirname(p)] = "directory"}
    IN  {[p \in {Root} \cup {q \in ItemPaths : t[q] # "absent"} |->
              IF p = Root THEN "directory" ELSE t[p]] : t \in Layouts}

\* api.py:1039: DELETE of an item removes it and what lies below it
Remove(t, p) == [q \in {r \in DOMAIN t : ~IsPrefix(p, r)} |-> t[q]]

\* the drive after the server moved the item at s, with what lies below
\* it, to the path d
Moved(t, s, d) ==
    LET sub == {q \in DOMAIN t : IsPrefix(s, q)}
        rest == DOMAIN t \ sub
        Target(q) == d \o SubSeq(q, Len(s) + 1, Len(q))
    IN  [p \in rest \cup {Target(q) : q \in sub} |->
            IF p \in rest THEN t[p]
            ELSE t[CHOOSE q \in sub : Target(q) = p]]

Outcome(exc, t) == [raised |-> exc, tree |-> t]

\* api.py:1215-1217: `if not overwrite: if self.exists(dst): raise`
NoOverwrite(t, s, d) ==
    IF d \in DOMAIN t THEN Outcome("FileExistsError", t) ELSE Outcome("", t)

\* api.py:1218-1243 and 1094-1107: with overwrite, an existing dst of
\* another type than src is refused, a file is removed, a directory is
\* removed when it is empty and refused otherwise
Overwrite(t, s, d) ==
    IF d \notin DOMAIN t THEN Outcome("", t)
    ELSE IF t[s] # t[d] THEN Outcome("PermissionError", t)
    ELSE IF t[d] = "file" THEN Outcome("", Remove(t, d))
    ELSE IF \E q \in DOMAIN t : q # d /\ IsPrefix(d, q)
         THEN Outcome("PermissionError", t)
    ELSE Outcome("", Remove(t, d))

\* api.py:1245-1292: assert_dir of the new parent, then the PATCH request;
\* the server answers 200 and moves the item, or refuses to move an item
\* below itself (400) or onto an existing item (409)
MoveRequest(t, s, d) ==
    IF Dirname(d) \notin DOMAIN t THEN Outcome("FileNotFoundError", t)
    ELSE IF t[Dirname(d)] # "directory"
         THEN Outcome("NotADirectoryError", t)
    ELSE IF IsPrefix(s, Dirname(d)) THEN Outcome("FileNotFoundError", t)
    ELSE IF d \in DOMAIN t THEN Outcome("FileExistsError", t)
    ELSE Outcome("", Moved(t, s, d))

\* api.py:1138-1292 with action "move": what the call raises ("" if
\* nothing) and the drive it leaves
move_or_copy(t, s, d, overwrite) ==
    IF s = d THEN Outcome("FileExistsError", t)
    ELSE IF s \notin DOMAIN t THEN Outcome("FileNotFoundError", t)
    ELSE LET cleared == IF overwrite THEN Overwrite(t, s, d)
                        ELSE NoOverwrite(t, s, d)
         IN  IF cleared.raised # "" THEN cleared
             ELSE MoveRequest(cleared.tree, s, d)

rename_frame ==
    <<upload_frame, put_vars, batch_vars, worker_vars, size_vars>>

RenameInit ==
    /\ IdleUpload
    /\ IdleStore
    /\ IdleBatch
    /\ IdleWorkers
    /\ IdleSize
    /\ tree \in Trees
    /\ before = tree
    /\ src = Root
    /\ dst = Root
    /\ called = "none"
    /\ raised = ""

\* api.py:1371-1389: rename(src, dst) calls
\* self.move(src, posixpath.dirname(dst), posixpath.basename(dst)), and
\* move passes its arguments on by position (api.py:1360): dirname(dst)
\* becomes the dst of move_or_copy and basename(dst) its overwrite
Rename ==
    /\ called = "none"
    /\ \E s \in ItemPaths : \E d \in ItemPaths :
        LET out == move_or_copy(tree, s, Dirname(d), Truthy(Basename(d)))
        IN  /\ src' = s
            /\ dst' = d
            /\ raised' = out.raised
            /\ tree' = out.tree
    /\ called' = "rename"
    /\ UNCHANGED <<before, rename_frame>>

\* api.py:1353-1360: move(src, dst, overwrite=...), as cli.py:750 calls it
Move ==
    /\ called = "none"
    /\ \E s \in ItemPaths : \E d \in ItemPaths : \E overwrite \in BOOLEAN :
        LET out == move_or_copy(tree, s, d, overwrite)
        IN  /\ src' = s
            /\ dst' = d
            /\ raised' = out.raised
            /\ tree' = out.tree
    /\ called' = "move"
    /\ UNCHANGED <<before, rename_frame>>

RenameNext ==
    \/ Rename
    \/ Move

RenameSpec == RenameInit /\ [][RenameNext]_vars

\* ------------------------------------------------- the chunk size
\* The chunk size computation of upload (api.py:116, 130-133), applied to
\* one chunk_size argument.
\* chunk_size arguments: the multiples of 320 KiB up to 60 MiB and past it
\* and their neighbours, negative and oversized values
ChunkSizeInputs ==
    {k * ChunkUnit + d : k \in 0..((MaxChunkSize \div ChunkUnit) + 1),
                         d \in {0 - 1, 0, 1}}
    \cup {0 - MaxChunkSize, 10485760, 99999999}

size_frame ==
    <<upload_frame, put_vars, batch_vars, worker_vars, rename_vars>>

SizeInit ==
    /\ IdleUpload
    /\ IdleStore
    /\ IdleBatch
    /\ IdleWorkers
    /\ IdleRename
    /\ IdleSize

\* api.py:116 and 133: upload pops chunk_size and replaces it
SetChunkSize ==
    /\ kw_chunk_size = {}
    /\ \E c \in ChunkSizeInputs :
        /\ kw_chunk_size' = {c}
        /\ eff_chunk_size' = EffectiveChunkSize(c)
    /\ UNCHANGED size_frame

SizeNext == SetChunkSize

SizeSpec == SizeInit /\ [][SizeNext]_vars

TypeOK ==
    /\ pc \in {"idle", "simple", "init", "status", "exists", "put", "done",
               "failed"}
    /\ path \in {"none", "simple", "resumable"}
    /\ position \in Nat \cup {NoPosition}
    /\ weird_error \in BOOLEAN
    /\ response \in ChunkResponses \cup {NoResponse}
    /\ Cardinality(disk) <= 1
    /\ Cardinality(session) <= 1

\* ---------------------------------------------------------------- claims
\* status 401, or 416 with error.innererror.code fragmentRowCountCheckFailed
SignatureAnomalous(r) ==
    \/ r.status_code = 401
    \/ r.status_code = 416 /\ r.code = "fragmentRowCountCheckFailed"

\* C1: while every PUT attempt of an upload that started at position 0 has
\* been answered with 200, 201 or 202, the k-th range sent is
\* [(k-1)c, min(kc, n)): ascending, non-empty, without gap or overlap; once
\* position has reached n the ranges end at n and there are ceil(n/c) of them.
C1_HappyPathRanges ==
    (happy /\ sent # <<>> /\ sent[1][1] = 0) =>
        /\ \A k \in 1..Len(sent) :
            /\ sent[k] = <<(k - 1) * chunk_size, Min(k * chunk_size, total)>>
            /\ sent[k][1] < sent[k][2]
        /\ position >= total =>
            /\ sent[Len(sent)][2] = total
            /\ (Len(sent) - 1) * chunk_size < total
            /\ total <= Len(sent) * chunk_size

\* C1 witness: scenario A, 25 MiB in chunks of 10 MiB with threshold 10 MiB
\* went through as 10, 10 and 5 MiB.
C1_ScenarioA ==
    /\ pc = "done"
    /\ happy
    /\ total = 26214400
    /\ chunk_size = 10485760
    /\ simple_upload_threshold = 10485760
    /\ sent = << <<0, 10485760>>, <<10485760, 20971520>>,
                 <<20971520, 26214400>> >>

\* C2: a chunk PUT answered 404 never fails the upload by itself: the flag
\* is cleared and a new session is requested; when that session is issued,
\* the next chunk PUT starts at byte 0 on the newly issued upload URL,
\* whatever position had been reached.
C2_RestartOn404 ==
    [][ /\ (ChunkResponse /\ response'.status_code = 404)
            => (pc' = "init" /\ err' = "" /\ ~weird_error')
        /\ (InitResponse /\ response.status_code = 404 /\ pc' # "failed")
            => /\ pc' = "put"
               /\ position' = 0
               /\ ~weird_error'
               /\ issued' = issued + 1
               /\ upload_url'.id = issued'
               /\ upload_url' # upload_url
               /\ sent' = << <<0, Min(chunk_size, total)>> >> ]_vars

\* C2 witness: scenario C, chunk 1 was accepted, chunk 2 was answered 404,
\* and chunk 1 is being sent again on the second session.
C2_ScenarioC ==
    /\ pc = "put"
    /\ response.status_code = 404
    /\ prev = "Progress"
    /\ position = 0
    /\ issued = 2
    /\ upload_url.id = 2
    /\ total = 26214400
    /\ chunk_size = 10485760

\* C3: when a chunk response with the anomaly signature directly follows
\* another one, the upload fails with UploadError; a failed upload makes no
\* further step (no chunk PUT follows).
C3_TwoAnomaliesFail ==
    [][ /\ (ChunkResponse /\ SignatureAnomalous(response)
                /\ SignatureAnomalous(response'))
            => (pc' = "failed" /\ err' = "UploadError")
        /\ pc = "failed" => (pc' = "failed" /\ sent' = sent) ]_vars

\* C3 witness: the upload failed on the second of two anomalous responses.
C3_FailedOnSecondAnomaly ==
    /\ pc = "failed"
    /\ err = "UploadError"
    /\ SignatureAnomalous(response)
    /\ prev = "AnomalousRetry"

\* C4: an anomalous response that follows a Progress response that followed
\* an anomalous response is handled as a first anomaly: the flag, cleared
\* by the Progress, is set, the client waits and asks for the position.
C4_ProgressClearsAnomaly ==
    [][ (ChunkResponse /\ prev = "AnomalousRetry"
            /\ TableClass(response) = "Progress"
            /\ SignatureAnomalous(response'))
        => /\ ~weird_error
           /\ weird_error'
           /\ pc' = "status"
           /\ err' = ""
           /\ slept' >= 30
           /\ position' = position ]_vars

\* C4 witness: anomalous, Progress, anomalous, and the upload goes on.
C4_AnomalyProgressAnomaly ==
    /\ pc = "status"
    /\ prev2_anomalous
    /\ prev = "Progress"
    /\ SignatureAnomalous(response)
    /\ weird_error

\* C5 as claimed: a chunk response of the table's class Fatal (400, 403,
\* 409, ...) fails the upload at once with UploadError.
C5_FatalFailsAtOnce ==
    [][ (ChunkResponse /\ TableClass(response') = "Fatal")
        => (pc' = "failed" /\ err' = "UploadError") ]_vars

\* C5 amended: a chunk response whose status is none of 200/201/202, 404,
\* 416, 401 or >= 500 is handled as an anomaly: the first one sets the flag,
\* the client waits 30 + 3 seconds and asks for the position; the upload
\* fails with UploadError only if the flag was already set.
C5_UnknownStatusIsAnomaly ==
    [][ (ChunkResponse /\ TableClass(response') = "Fatal")
        => IF weird_error
           THEN pc' = "failed" /\ err' = "UploadError"
           ELSE /\ pc' = "status"
                /\ err' = ""
                /\ weird_error'
                /\ slept' = 33
                /\ position' = position ]_vars

\* C5 witness: the first response of the upload was 400, and the upload
\* goes on with a status request.
C5_First400Retried ==
    /\ pc = "status"
    /\ response.status_code = 400
    /\ prev = "none"
    /\ weird_error

\* C6 as claimed: no chunk response with status >= 500 sets the anomaly
\* flag or fails the upload; the client waits and asks for the position.
C6_Any5xxTransient ==
    [][ (ChunkResponse /\ response'.status_code >= 500)
        => (pc' = "status" /\ ~weird_error') ]_vars

\* C6 amended: a chunk response with status 500, 502, 503 or 504 never sets
\* the flag and never fails the upload: the client waits 30 seconds and asks
\* for the position.  Any other status >= 500 is an anomaly: it sets the
\* flag, and fails the upload when the flag was already set.
C6_Known5xxTransient ==
    [][ /\ (ChunkResponse /\ response'.status_code \in {500, 502, 503, 504})
            => /\ pc' = "status"
               /\ err' = ""
               /\ ~weird_error'
               /\ slept' = 30
               /\ position' = position
        /\ (ChunkResponse /\ response'.status_code >= 500
                /\ response'.status_code \notin {500, 502, 503, 504})
            => IF weird_error
               THEN pc' = "failed" /\ err' = "UploadError"
               ELSE pc' = "status" /\ weird_error' ]_vars

\* C6 witness: 503 directly after another >= 500 response, upload goes on.
C6_Two5xxInARow ==
    /\ pc = "status"
    /\ response.status_code = 503
    /\ prev = "TransientRetry"
    /\ ~weird_error

\* C7 as claimed: when the status request returned an empty list and the
\* remote file exists after the wait, the upload does not end in the error
\* of a missing position.
C7_EmptyRangesCompleted ==
    remote_exists = "yes" => ~(pc = "failed" /\ err = "TypeError")

\* C8: a status response that expects more than one range fails the upload
\* with UploadError and changes neither position nor the ranges sent.
C8_MultiRangeFails ==
    [][ Len(expected_ranges') > 1
        => /\ pc' = "failed"
           /\ err' = "UploadError"
           /\ position' = position
           /\ sent' = sent ]_vars

\* C8 witness: the upload failed on a status response with two ranges.
C8_FailedOnTwoRanges ==
    /\ pc = "failed"
    /\ err = "UploadError"
    /\ Len(expected_ranges) = 2

\* C9: load (alone or in the constructor) of a file whose expires is not
\* after the clock returns no session and removes the file; a session is
\* returned only from a file with clock < expires, which stays on disk.
C9_ExpiredNeverLoaded ==
    [][ (StoreLoad \/ StoreConstruct)
        => /\ \A r \in disk :
                r.expires <= clock => (session' = {} /\ disk' = {})
           /\ session' # {}
                => /\ session' = disk
                   /\ disk' = disk
                   /\ \A r \in disk : clock < r.expires ]_vars

\* C9 witness: load found a file that expires exactly now, returned no
\* session and removed the file.
C9_ExpiredNowRemoved ==
    /\ op = "load"
    /\ \E r \in found : r.expires = clock
    /\ session = {}
    /\ disk = {}

FinalChunkAccepted ==
    /\ ChunkResponse
    /\ response'.status_code \in {200, 201}
    /\ position + ChunkLen(position) >= total

\* C11: with compare_hash, when the chunk that ends the file is accepted
\* with a created-item response whose SHA-1 differs from the local one, the
\* call fails with UploadError in that step: no chunk is sent again, no
\* session is requested or issued, the failure is final, and a call that
\* succeeded never has a differing SHA-1 in its last response.
C11_HashMismatchFails ==
    [][ /\ (FinalChunkAccepted /\ compare_hash /\ response'.sha1 = "diff")
            => /\ pc' = "failed"
               /\ err' = "UploadError"
               /\ sent' = sent
               /\ issued' = issued
               /\ upload_url' = upload_url
        /\ (pc' = "done" /\ path' = "resumable" /\ compare_hash')
            => response'.sha1 # "diff"
        /\ pc = "failed" => (pc' = "failed" /\ issued' = issued) ]_vars

\* C11 witness: all three chunks of the 25 MiB file were accepted, the last
\* response carries another SHA-1, and the call failed.
C11_FailedOnMismatch ==
    /\ pc = "failed"
    /\ err = "UploadError"
    /\ compare_hash
    /\ happy
    /\ Len(sent) = 3
    /\ position = total
    /\ response.status_code = 201
    /\ response.sha1 = "diff"

\* C12: with compare_hash, when the chunk that ends the file is accepted
\* with a created-item response without file.hashes.sha1Hash, the call
\* fails with UploadError; a call that succeeded with compare_hash has the
\* local SHA-1 in its last response.
C12_MissingHashFails ==
    [][ /\ (FinalChunkAccepted /\ compare_hash /\ response'.sha1 = "absent")
            => (pc' = "failed" /\ err' = "UploadError")
        /\ (pc' = "done" /\ path' = "resumable" /\ compare_hash')
            => response'.sha1 = "same" ]_vars

\* C12 witness: scenario D, every chunk was accepted, the last response has
\* no SHA-1, and the call failed.
C12_ScenarioD ==
    /\ pc = "failed"
    /\ err = "UploadError"
    /\ compare_hash
    /\ happy
    /\ position = total
    /\ response.status_code \in {200, 201}
    /\ response.sha1 = "absent"

\* C13: when a resumable upload with compare_hash has returned, the session
\* file of its (remote path, SHA-1) is absent and the session object holds
\* no session, whether the session was loaded or issued during the call and
\* however many sessions were issued.
C13_NoSessionFileAfterSuccess ==
    (pc = "done" /\ path = "resumable" /\ compare_hash)
        => (disk = {} /\ session = {})

\* C13 witness: the call returned after a restart (two sessions issued and
\* saved), and the session file is absent.
C13_DoneAfterRestart ==
    /\ pc = "done"
    /\ path = "resumable"
    /\ compare_hash
    /\ issued = 2
    /\ upload_url.id = 2
    /\ disk = {}

\* C14: on the hash path, whenever the upload blocks on a chunk PUT, a status
\* request or the existence check (or the sleep before it), and when it was
\* interrupted there, the session file holds a complete record (upload URL
\* and expiry) naming the session in use; and a call of upload that finds a
\* complete record not yet expired asks that session for its status, and
\* the chunk PUT that follows starts at the offset the status names.
C14_SessionOnDiskWhenInterrupted ==
    [][ /\ (/\ path' = "resumable"
            /\ compare_hash'
            /\ \/ pc' \in {"put", "status", "exists"}
               \/ pc' = "failed" /\ err' = "KeyboardInterrupt"
                    /\ upload_url' # NoUrl)
            => /\ \E e \in Times :
                    disk' = {[upload_url |-> upload_url', expires |-> e]}
               /\ session' = disk'
        /\ (pc = "idle" /\ session_obj' /\ \E r \in disk : r.expires > clock')
            => /\ pc' = "status"
               /\ disk' = disk
               /\ \E r \in disk : upload_url' = r.upload_url
        /\ (StatusResponse /\ pc' = "put")
            => position' = expected_ranges'[1][1] ]_vars

\* C14 witness: the upload was interrupted in its second chunk PUT on the
\* session issued in this call, and that session is on disk.
C14_InterruptedInSecondPut ==
    /\ pc = "failed"
    /\ err = "KeyboardInterrupt"
    /\ compare_hash
    /\ issued = 1
    /\ upload_url.id = 1
    /\ Len(sent) = 2
    /\ disk = {[upload_url |-> upload_url, expires |-> MaxTime]}

\* C15: a call of upload on the hash path that finds a record whose expires
\* is after the time it reads sends a status request on the record's URL as
\* its first request; until its first chunk PUT no session is requested or
\* issued; and that PUT, on the record's URL, starts at the first offset of
\* the range the status response names.
C15_ResumeSkipsInitiation ==
    [][ /\ (pc = "idle" /\ session_obj' /\ \E r \in disk : r.expires > clock')
            => /\ pc' = "status"
               /\ \E r \in disk : upload_url' = r.upload_url
               /\ issued' = 0
               /\ sent' = <<>>
        /\ (upload_url.id = 0 /\ response = NoResponse /\ sent = <<>>)
            => /\ pc' # "init"
               /\ issued' = 0
               /\ upload_url' = upload_url
               /\ pc' = "put"
                    => /\ pc = "status"
                       /\ Len(expected_ranges') = 1
                       /\ position' = expected_ranges'[1][1]
                       /\ sent' = << <<position',
                                       Min(position' + chunk_size, total)>> >>
       ]_vars

\* C15 witness: the session found on disk had its first chunk already; the
\* first PUT of this call is the second chunk, and no session was issued.
C15_ResumedAtSecondChunk ==
    /\ pc = "put"
    /\ upload_url.id = 0
    /\ issued = 0
    /\ response = NoResponse
    /\ position = chunk_size
    /\ sent = << <<chunk_size, Min(2 * chunk_size, total)>> >>

\* C16: a resumable upload without compare_hash has no session object and
\* leaves the session file as it is in every step, also when it restarts,
\* returns or fails; its first request asks for a new session although a
\* record is on disk, it never uses the URL of the record, and the first
\* PUT on every session it is issued starts at 0.
C16_NoHashNoSessionFile ==
    [][ (path' = "resumable" /\ ~compare_hash')
        => /\ disk' = disk
           /\ ~session_obj'
           /\ session' = {}
           /\ found' = found
           /\ clock' = clock
           /\ upload_url'.id # 0
           /\ pc = "idle" => (pc' = "init" /\ upload_url' = NoUrl)
           /\ (pc = "init" /\ pc' = "put")
                => (position' = 0 /\ upload_url'.id = issued') ]_vars

\* C16 witness: with a record on disk, an upload without compare_hash was
\* issued its second session after a restart and sends from 0; the record
\* is still the one of the earlier invocation.
C16_RestartedBesideRecord ==
    /\ pc = "put"
    /\ path = "resumable"
    /\ ~compare_hash
    /\ issued = 2
    /\ position = 0
    /\ disk = {[upload_url |-> Url(0, {}), expires |-> MaxTime]}

\* C17: a call of upload with a local file and check_remote raises in its
\* first step, before any upload request (no session requested or issued,
\* nothing PUT), when the remote path is a folder, whatever the conflict
\* behaviour, or a file with behaviour "fail"; when it is a file with
\* "replace" or "rename", or absent, the check raises nothing and the call
\* goes on to the simple or the resumable upload: it sends the first upload
\* request, unless the session object could not be constructed.
C17_RemoteCheck ==
    [][ (pc = "idle" /\ call'.local = "file" /\ call'.check_remote)
        => /\ (\/ call'.remote = "folder"
               \/ call'.remote = "file" /\ call'.conflict_behavior = "fail")
                => /\ pc' = "failed"
                   /\ err' \in {"onedrive.FileExistsError",
                                 "onedrive.IsADirectoryError"}
                   /\ path' = "none"
                   /\ issued' = 0
                   /\ upload_url' = NoUrl
                   /\ sent' = <<>>
           /\ (\/ call'.remote = "absent"
               \/ call'.remote = "file"
                    /\ call'.conflict_behavior \in {"replace", "rename"})
                => /\ path' \in {"simple", "resumable"}
                   /\ err' \notin {"onedrive.FileExistsError",
                                    "onedrive.IsADirectoryError",
                                    "APIRequestError"}
                   /\ (pc' \in {"simple", "init", "status"}
                        \/ (path' = "resumable" /\ compare_hash'
                                /\ ~session_obj')) ]_vars

\* C17 witness: the remote path is a folder and the behaviour "replace";
\* the call raised at once.
C17_FolderNotReplaced ==
    /\ pc = "failed"
    /\ err = "onedrive.IsADirectoryError"
    /\ call.check_remote
    /\ call.remote = "folder"
    /\ call.conflict_behavior = "replace"
    /\ issued = 0

\* C18: every createSession response, to the first request and to one made
\* after a chunk 404 alike, with status 404 fails the upload with
\* onedrive's FileNotFoundError, and one with any other status but 200
\* fails it with UploadError; no session is issued by it, and no chunk PUT
\* follows a failure.
C18_InitiationFailures ==
    [][ /\ InitResponse
            => /\ init_status' = 404
                    => /\ pc' = "failed"
                       /\ err' = "onedrive.FileNotFoundError"
                       /\ sent' = sent
                       /\ issued' = issued
               /\ init_status' \notin {200, 404}
                    => /\ pc' = "failed"
                       /\ err' = "UploadError"
                       /\ sent' = sent
                       /\ issued' = issued
        /\ pc = "failed" => (pc' = "failed" /\ sent' = sent) ]_vars

\* C18 witness: the request made to restart after a chunk 404 was answered
\* 404 itself, and the upload failed with FileNotFoundError.
C18_RestartAnswered404 ==
    /\ pc = "failed"
    /\ err = "onedrive.FileNotFoundError"
    /\ init_status = 404
    /\ response.status_code = 404
    /\ issued = 1
    /\ Len(sent) >= 1

\* C19: in every state the upload URL in use (the one of every chunk PUT
\* and status request), the URL held by the session object and the URL in
\* the session file have no query variable access_token.
C19_NoAccessTokenInUrl ==
    /\ "access_token" \notin upload_url.query
    /\ \A r \in session : "access_token" \notin r.upload_url.query
    /\ \A r \in disk : "access_token" \notin r.upload_url.query

\* C19 witness: after a restart the server returned an uploadUrl with an
\* access_token; the chunk PUT in flight and the session file use that URL
\* without it.
C19_TokenStrippedAfterRestart ==
    /\ pc = "put"
    /\ issued = 2
    /\ "access_token" \in uploadUrl.query
    /\ upload_url = Url(uploadUrl.id, {})
    /\ disk = {[upload_url |-> upload_url, expires |-> MaxTime]}

\* C20 as claimed: at every instant of a save, and after a save that was
\* interrupted, the session file is absent or holds a complete record, the
\* one before the save or the one being saved.
C20_SaveAtomic ==
    op \in {"save_open", "interrupted"}
        => (Truncated \notin disk /\ (disk = {} \/ disk = session))

\* C21 as claimed: a resumable upload that failed with an exception the
\* code raises or re-raises on purpose, while its session object holds a
\* session whose record is on disk, failed with UploadError, the exception
\* whose message names the session file.
C21_FailureNamesSession ==
    (/\ pc = "failed"
     /\ err \in {"UploadError", "onedrive.FileNotFoundError",
                 "RequestException", "APIRequestError"}
     /\ path = "resumable"
     /\ session # {}
     /\ disk = session)
        => err = "UploadError"

\* C26: a resumable upload returns only in the step in which the response
\* to the chunk PUT that ends at total arrives, and only when its status is
\* 200 or 201; when that response is 202 the upload fails with UploadError;
\* and a call that leaves the loop without any chunk response fails.
C26_SuccessNeedsCreated ==
    [][ /\ (pc' = "done" /\ path' = "resumable")
            => /\ ChunkResponse
               /\ response'.status_code \in {200, 201}
               /\ position < total
               /\ position' = total
               /\ sent'[Len(sent')][2] = total
        /\ (ChunkResponse /\ response'.status_code = 202
                /\ position + ChunkLen(position) >= total)
            => (pc' = "failed" /\ err' = "UploadError")
        /\ (path' = "resumable" /\ response' = NoResponse)
            => pc' # "done" ]_vars

\* C26 witness: every chunk was accepted, the last one with 202, and the
\* upload failed.
C26_LastChunk202 ==
    /\ pc = "failed"
    /\ err = "UploadError"
    /\ happy
    /\ position = total
    /\ Len(sent) = 3
    /\ response.status_code = 202

\* C27: a step removes the record from the session file only when the
\* upload returns in that step, or when upload is called and load finds the
\* record expired at the time it reads; a step in which the upload fails
\* leaves the session file as it was.
C27_RecordRemovedOnlyTwice ==
    [][ /\ (disk # {} /\ disk' = {})
            => \/ pc' = "done" /\ path' = "resumable" /\ compare_hash'
               \/ /\ pc = "idle"
                  /\ session_obj'
                  /\ session' = {}
                  /\ \A r \in disk : r.expires <= clock'
        /\ pc' = "failed" => disk' = disk ]_vars

\* C27 witness: the upload failed on a SHA-1 mismatch and the record of its
\* session is still on disk.
C27_RecordKeptAfterMismatch ==
    /\ pc = "failed"
    /\ err = "UploadError"
    /\ compare_hash
    /\ position = total
    /\ response.sha1 = "diff"
    /\ Created(response)
    /\ disk = {[upload_url |-> upload_url, expires |-> MaxTime]}

\* C28 as claimed: a simple upload with compare_hash never returns when the
\* SHA-1 of the created file differs from the local one.
C28_SimpleMismatchReported ==
    (pc = "done" /\ path = "simple" /\ compare_hash)
        => response.sha1 # "diff"

\* C29 as claimed: a resumable upload with compare_hash and a local file
\* that passed the remote check never fails with a TypeError while locating
\* its session file, XDG_DATA_HOME set or not.
C29_LocateNeverRaises ==
    (/\ pc = "failed"
     /\ path = "resumable"
     /\ compare_hash
     /\ call.local = "file"
     /\ ~call.xdg)
        => err # "TypeError"

\* C23 as claimed: a network-level exception reaches the caller of a
\* resumable upload only after the request was tried again and the retries
\* were used up.
C23_NetworkErrorAfterRetries ==
    (pc = "failed" /\ err = "RequestException" /\ path = "resumable")
        => net_error.attempts = retries + 1

\* C23 amended: a network-level exception of a chunk PUT reaches the caller
\* only after 6 attempts all raised; one of a status request, a
\* createSession request or the existence check reaches the caller from
\* the first and only attempt, and ends the upload.
C23_OnlyChunkPutRetried ==
    [][ /\ (pc' = "failed" /\ err' = "RequestException" /\ pc # "failed")
            => /\ net_error'.request = pc
               /\ pc = "put" => net_error'.attempts = 6
               /\ pc \in {"init", "status", "exists"}
                    => net_error'.attempts = 1
        /\ (pc \in {"init", "status", "exists"} /\ RequestNetworkError)
            => (pc' = "failed" /\ err' = "RequestException") ]_vars

\* C23 witness: the one attempt of a status request, made after a chunk
\* error, raised, and the upload ended with that exception.
C23_StatusRequestRaisedOnce ==
    /\ pc = "failed"
    /\ err = "RequestException"
    /\ path = "resumable"
    /\ net_error = [request |-> "status", attempts |-> 1]
    /\ response.status_code = 503

\* C22: one call of a put helper, streaming or not, sends the PUT at most 6
\* times; it sends again only in a step in which an attempt raised a
\* network-level exception (a timeout is one); the first response is
\* returned whatever its status and nothing is sent after it; the
\* exception is re-raised only by the sixth attempt.
C22_PutRetriesOnlyOnException ==
    [][ /\ attempts' <= 6
        /\ attempts' > attempts
            => \/ put_pc = "idle" /\ attempts' = 1
               \/ /\ put_pc = "sending"
                  /\ last_exc' \in {"Timeout", "ConnectionError"}
                  /\ attempts' = attempts + 1
                  /\ put_status' = 0
        /\ (put_pc = "sending" /\ put_status' # 0)
            => (put_pc' = "returned" /\ attempts' = attempts)
        /\ put_pc = "returned"
            => (put_pc' = "returned" /\ attempts' = attempts)
        /\ (put_pc = "sending" /\ put_pc' = "raised") => attempts = 6
        /\ (put_pc = "sending" /\ put_pc' = "sending" /\ attempts' = attempts)
            => UNCHANGED vars
        /\ (PutAttemptException /\ attempts < 6) => put_pc' = "sending"
       ]_vars

\* C22 witness: five attempts of a streaming call raised, the last one a
\* timeout; the sixth was answered 500, which the helper returned.
C22_SixthAttemptReturns500 ==
    /\ put_pc = "returned"
    /\ stream
    /\ attempts = 6
    /\ last_exc = "Timeout"
    /\ put_status = 500

\* C25: a batch command that has ended has handled every item, and its
\* exit status is nonzero if the call made for any item failed.
C25_BatchReportsEveryFailure ==
    batch_pc \in {"returned", "raised"} =>
        /\ Len(results) = Len(items)
        /\ (\E i \in DOMAIN items : ~items[i].ok) => ExitStatus # 0

\* C24: when the (remote path, content hash) pairs of two concurrent upload
\* workers differ, no session file is accessed by both, and a step of one
\* worker leaves the session file of the other as it was.
C24_DisjointSessionFiles ==
    /\ [](keys[1] # keys[2] => touched[1] \cap touched[2] = {})
    /\ [][keys[1] # keys[2] =>
              \A w \in Workers :
                  actor' # w => files'[SessionPath(w)] = files[SessionPath(w)]
         ]_vars

\* C24 witness: two workers uploading different contents to the same remote
\* path have both saved a session, and each file holds its worker's record.
C24_SamePathBothSaved ==
    /\ keys[1].remote_path = keys[2].remote_path
    /\ keys[1].sha1sum # keys[2].sha1sum
    /\ \A w \in Workers :
        /\ worker_pc[w] = "finished"
        /\ files[SessionPath(w)] = {[writer |-> w, expired |-> FALSE]}

\* C30: after rename(src, dst), if src existed, the parent of dst was an
\* existing directory and dst did not exist (and was not below src), nothing
\* was raised and the drive is the one before with the item moved from src
\* to dst; if dst existed, FileExistsError was raised and the drive is as
\* before.
C30_RenameContract ==
    called = "rename" =>
        /\ ( /\ src \in DOMAIN before
             /\ Dirname(dst) \in DOMAIN before
             /\ before[Dirname(dst)] = "directory"
             /\ dst \notin DOMAIN before
             /\ ~IsPrefix(src, dst) )
               => (raised = "" /\ tree = Moved(before, src, dst))
        /\ dst \in DOMAIN before
               => (raised = "FileExistsError" /\ tree = before)

\* C31: whenever a resumable upload is at the head of its chunk loop, waits
\* for a response or has ended, position is an integer from 0 to total.
C31_PositionInRange ==
    path = "resumable" => (position \in Nat /\ position <= total)

\* C32: no log entry written during an upload holds the access_token of an
\* upload URL.
C32_NoCredentialInLog == "access_token" \notin logged.query

C34_BackoffByClass ==
    [][(pc = "put" /\ pc' = "status") =>
           /\ TableClass(response') = "TransientRetry" => slept' = 30
           /\ TableClass(response') = "TransientRetry416" => slept' = 3
           /\ TableClass(response') = "AnomalousRetry" => slept' = 30 ]_vars

\* C34: the seconds slept between a retried chunk response and the status
\* request that follows depend only on the response: 30 after status 500,
\* 502, 503 or 504, 3 after a 416 without the anomaly signature, 60 after
\* any other status >= 500, and 33 after any other response (401, 416 with
\* the signature, other 4xx), which is a first anomaly.
C34_BackoffByStatus ==
    [][(pc = "put" /\ pc' = "status") =>
           slept' =
               IF response'.status_code \in {500, 502, 503, 504} THEN 30
               ELSE IF response'.status_code >= 500 THEN 60
               ELSE IF response'.status_code = 416
                       /\ ~SignatureAnomalous(response') THEN 3
               ELSE 33 ]_vars

\* C34 witness: the client slept 33 seconds after a first 401 and waits for
\* the status response.
C34_Slept33AfterFirst401 ==
    /\ pc = "status"
    /\ response.status_code = 401
    /\ weird_error
    /\ slept = 33

\* C35: a session object that is not inside save can always discard, with
\* or without a session file; discard leaves no file and an empty (falsy)
\* session; a load that follows finds no file and loads no session; a second
\* discard in a row changes nothing.
C35_DiscardIdempotent ==
    /\ []((session_obj /\ op # "save_open") => ENABLED StoreDiscard)
    /\ [][ /\ StoreDiscard => (disk' = {} /\ ~SessionLoaded(session'))
           /\ (op = "discard" /\ StoreLoad)
                  => (found' = {} /\ ~SessionLoaded(session') /\ disk' = {})
           /\ (op = "discard" /\ StoreDiscard)
                  => (disk' = disk /\ session' = session) ]_vars

\* C35 witness: discard was called when the last load had found no session
\* file; the file is absent and the session empty.
C35_DiscardedWithoutFile ==
    /\ op = "discard"
    /\ session_obj
    /\ found = {}
    /\ disk = {}
    /\ session = {}

\* C36: an anomalous chunk response that follows a 404 restart or a
\* transient error (500, 502, 503, 504, 416 without the signature) that
\* followed an anomalous response is handled as a first anomaly and does not
\* fail the upload; a chunk response that is neither accepted nor 404 fails
\* the upload with UploadError only when it and the chunk response directly
\* before it are both anomalous.
C36_FlagClearedByNonAnomalous ==
    [][ LET Cleared(r) ==
                \/ r.status_code \in {404, 500, 502, 503, 504}
                \/ r.status_code = 416 /\ r.code \in {"other", "absent"}
            Retried(r) == r.status_code \notin {0, 200, 201, 202, 404}
        IN  /\ (ChunkResponse /\ prev = "AnomalousRetry" /\ Cleared(response)
                    /\ SignatureAnomalous(response'))
                => (~weird_error /\ weird_error' /\ pc' = "status"
                    /\ err' = "")
            /\ (ChunkResponse /\ Retried(response') /\ pc' = "failed"
                    /\ err' = "UploadError")
                => (Retried(response) /\ ~Cleared(response)
                    /\ ~Cleared(response')) ]_vars

\* C36 witness: anomalous, 404 restart, anomalous, and the upload goes on.
C36_AnomalyRestartAnomaly ==
    /\ pc = "status"
    /\ prev2_anomalous
    /\ prev = "RestartSession"
    /\ SignatureAnomalous(response)
    /\ weird_error

\* C37: a chunk response that is neither accepted nor 404 and does not fail
\* the upload is followed by a status request, with no range sent in that
\* step; the step after a status request is never another status request,
\* and when it is a chunk PUT, that PUT starts at the offset the status
\* response named and is the first range sent since; the existence check
\* that follows an empty list is never followed by a chunk PUT.
C37_OneStatusQueryThenPut ==
    [][ /\ (ChunkResponse /\ response'.status_code \notin {200, 201, 202, 404}
                /\ pc' # "failed")
            => (pc' = "status" /\ sent' = sent /\ position' = position)
        /\ (pc = "status" /\ pc' = "status") => UNCHANGED vars
        /\ (pc = "status" /\ pc' = "put")
            => /\ Len(expected_ranges') = 1
               /\ position' = expected_ranges'[1][1]
               /\ Len(sent') = 1
               /\ sent'[1][1] = expected_ranges'[1][1]
        /\ pc = "exists" => pc' \in {"exists", "failed"} ]_vars

\* C37 witness: the first chunk of a new session, PUT at offset 0, was
\* answered 503; the status response named the start of the second chunk,
\* and the PUT in flight starts there.
C37_PutAtOffsetOfStatus ==
    /\ pc = "put"
    /\ issued = 1
    /\ upload_url.id = 1
    /\ prev = "none"
    /\ response.status_code = 503
    /\ expected_ranges = << <<chunk_size, total - 1>> >>
    /\ position = chunk_size
    /\ Len(sent) = 1
    /\ sent[1][1] = chunk_size

\* C38: in an upload with compare_hash, from the moment a session was
\* issued or loaded until the upload returns, the session file holds one
\* record, the one of the session object, and its upload_url is the upload
\* URL the client holds and sends its chunk PUTs and status requests to.
C38_SessionFileHoldsUrlInUse ==
    (path = "resumable" /\ session_obj /\ upload_url # NoUrl /\ pc # "done")
        => /\ disk = session
           /\ \E rec \in disk : rec.upload_url = upload_url

\* C38 witness: after a 404 restart the chunk PUT in flight goes to the URL
\* of the second session, which is the one in the session file.
C38_FileFollowsRestart ==
    /\ pc = "put"
    /\ session_obj
    /\ response.status_code = 404
    /\ issued = 2
    /\ upload_url.id = 2
    /\ \E rec \in disk : rec.upload_url = upload_url

\* a chunk PUT is answered with a status other than 200, 201, 202
NonProgressAnswer ==
    /\ pc = "put"
    /\ pc' # "failed"
    /\ response'.status_code \notin {200, 201, 202}

\* C39: when every request returns and, from some point on, no chunk PUT
\* is answered with a status other than 200, 201 or 202, the call of upload
\* eventually returns or raises; every accepted chunk moves position forward
\* by at least one byte, and a call that has ended takes no further step.
C39_EventuallyReturns ==
    /\ (<>[][~NonProgressAnswer]_vars) => <>(pc \in {"done", "failed"})
    /\ [][ /\ (pc = "put" /\ pc' \in {"put", "done"})
               => position' > position
           /\ pc \in {"done", "failed"} => UNCHANGED vars ]_vars

\* C39 witness: an upload in a session of its own returned after a chunk
\* PUT was refused, the position was asked of the server and the chunks
\* from there on were accepted.
C39_DoneAfterTransientErrors ==
    /\ pc = "done"
    /\ issued = 1
    /\ upload_url.id = 1
    /\ expected_ranges # <<>>
    /\ position = total

\* C40: every chunk PUT of a resumable upload carries a Content-Range
\* 'bytes start-end/total' with 0 <= start <= end <= total - 1 and
\* end - start + 1 = min(chunk_size, total - start) >= 1, with the streamed
\* payload (whose FileSegment assertion holds) and with the payload read
\* into memory: no chunk is empty and none reaches past the end of the file.
C40_ContentRangeWithinFile ==
    \A i \in 1..Len(sent) :
        LET start == sent[i][1]
            size == sent[i][2] - sent[i][1]
        IN  /\ size = Min(chunk_size, total - start)
            /\ size >= 1
            /\ FileSegment(start, size, total)
            /\ \A h \in {stream_put_file_segment_headers(start, size, total),
                          put_file_segment_headers(start, size, total)} :
                   /\ h[3] = total
                   /\ 0 <= h[1]
                   /\ h[1] <= h[2]
                   /\ h[2] <= total - 1
                   /\ h[2] - h[1] + 1 = size

\* C40 witness: a full chunk was followed by a last chunk shorter than
\* chunk_size, which ends at the last byte of the file.
C40_ShortLastChunk ==
    /\ Len(sent) >= 2
    /\ sent[1] = <<0, chunk_size>>
    /\ sent[Len(sent)][2] = total
    /\ sent[Len(sent)][2] - sent[Len(sent)][1] < chunk_size
    /\ put_file_segment_headers(sent[Len(sent)][1],
                                sent[Len(sent)][2] - sent[Len(sent)][1],
                                total)[2] = total - 1

====
